---- MODULE Spec2Model ----
(***************************************************************************)
(* Model of the Optimism consensus validator (OpBeaconConsensus) and of    *)
(* the EIP-7685 request-list codec.                                        *)
(*                                                                         *)
(* The validators are pure functions of (candidate, parent, chain spec).   *)
(* Each specification draws one call's inputs in its initial state and has *)
(* one action per entry point that applies the entry point to them.  A     *)
(* result carries the verdict and the sequence of rules that were          *)
(* evaluated, in evaluation order.                                         *)
(***************************************************************************)
EXTENDS Integers, Sequences, FiniteSets

VARIABLES call, result

vars == <<call, result>>

(***************************************************************************)
(* Bounds of the model.                                                    *)
(***************************************************************************)
\* timestamps range over 0..MaxTime
MaxTime == 2
\* the activation timestamp (or block number) of a scheduled hardfork
ForkTime == 1
\* longest request list that is encoded and decoded
MaxRequests == 3
\* most sidecars buffered in queued_actions
MaxQueue == 2
\* most notifications the event stream delivers
MaxEvents == 2

(***************************************************************************)
(* Option<T>: None is the empty sequence, Some(x) the one-element one.     *)
(***************************************************************************)
None == <<>>

Some(x) == <<x>>

IsSome(o) == o # <<>>

IsNone(o) == o = <<>>

Unwrap(o) == o[1]

unwrap_or(o, d) == IF o = <<>> THEN d ELSE o[1]

Option(S) == {None} \cup {Some(x) : x \in S}

Max(a, b) == IF a > b THEN a ELSE b

RECURSIVE SumSeq(_)
SumSeq(s) == IF s = <<>> THEN 0 ELSE Head(s) + SumSeq(Tail(s))

(***************************************************************************)
(* Verdicts and results.                                                   *)
(***************************************************************************)
Ok == [tag |-> "Ok"]

Err(t) == [tag |-> t]

ErrGotExpected(t, g, e) == [tag |-> t, got |-> g, expected |-> e]

\* ConsensusError::Other(format!("failed to verify block {}: {err}", number))
ErrOther(number, err) == [tag |-> "Other", block |-> number, cause |-> err.tag]

IsOk(v) == v.tag = "Ok"

Ret(v, ev) == [verdict |-> v, evaluated |-> ev]

NoResult == [verdict |-> [tag |-> "NoResult"], evaluated |-> <<>>]

(***************************************************************************)
(* Hashes and commitment roots: an injective constructor over the          *)
(* committed list, one kind per commitment.                                *)
(***************************************************************************)
Root(kind, list) == [kind |-> kind, preimage |-> list]

\* keccak256(rlp([])): the ommers hash of an empty ommers list
EMPTY_OMMER_ROOT_HASH == Root("ommers", <<>>)

\* root of the empty trie
EMPTY_ROOT_HASH == Root("trie", <<>>)

(***************************************************************************)
(* Chain specification: activation predicates, inclusive of the boundary.  *)
(* A fork is None (never scheduled) or Some(activation).                   *)
(***************************************************************************)
ActiveAt(fork, t) == IsSome(fork) /\ t >= Unwrap(fork)

is_shanghai_active_at_timestamp(cs, ts) == ActiveAt(cs.shanghai, ts)

is_cancun_active_at_timestamp(cs, ts) == ActiveAt(cs.cancun, ts)

is_isthmus_active_at_timestamp(cs, ts) == ActiveAt(cs.isthmus, ts)

is_holocene_active_at_timestamp(cs, ts) == ActiveAt(cs.holocene, ts)

is_bedrock_active_at_block(cs, number) == ActiveAt(cs.bedrock, number)

\* per-block maximum of blob gas (in blob units)
MaxBlobGasPerBlock == 1

\* per-block target of blob gas (in blob units)
TargetBlobGasPerBlock == 1

blob_params_at_timestamp(cs, ts) ==
    IF is_cancun_active_at_timestamp(cs, ts)
    THEN Some([target |-> TargetBlobGasPerBlock, max |-> MaxBlobGasPerBlock])
    ELSE None

(***************************************************************************)
(* validate_block_pre_execution and the rules it sequences.                *)
(*   block = [header |-> [number, timestamp, ommers_hash,                  *)
(*                        transactions_root, withdrawals_root,             *)
(*                        blob_gas_used],                                  *)
(*            body   |-> [ommers, transactions, withdrawals]]              *)
(* body.ommers is None for a body type that has no ommers list at all; a   *)
(* transaction is modelled by the blob gas it declares.                    *)
(***************************************************************************)
calculate_ommers_root(body) ==
    IF IsNone(body.ommers) THEN None
    ELSE Some(Root("ommers", Unwrap(body.ommers)))

calculate_tx_root(body) == Root("transactions", body.transactions)

ensure_transaction_root_valid(block) ==
    LET calculated_root == calculate_tx_root(block.body)
    IN  IF block.header.transactions_root # calculated_root
        THEN ErrGotExpected("BodyTransactionRootDiff", calculated_root,
                            block.header.transactions_root)
        ELSE Ok

\* shanghai::ensure_empty_shanghai_withdrawals
ensure_empty_shanghai_withdrawals(body) ==
    IF IsNone(body.withdrawals) THEN Err("BodyWithdrawalsMissing")
    ELSE IF Unwrap(body.withdrawals) # <<>> THEN Err("WithdrawalsRootUnexpected")
    ELSE Ok

\* canyon::ensure_empty_withdrawals_root
ensure_empty_withdrawals_root(header) ==
    IF IsNone(header.withdrawals_root) THEN Err("WithdrawalsRootMissing")
    ELSE IF Unwrap(header.withdrawals_root) # EMPTY_ROOT_HASH
         THEN ErrGotExpected("BodyWithdrawalsRootDiff",
                             Unwrap(header.withdrawals_root), EMPTY_ROOT_HASH)
    ELSE Ok

\* isthmus::ensure_withdrawals_storage_root_is_some
ensure_withdrawals_storage_root_is_some(header) ==
    IF IsNone(header.withdrawals_root) THEN Err("StorageRootMissing") ELSE Ok

body_blob_gas_used(body) == SumSeq(body.transactions)

validate_cancun_gas(block) ==
    LET total_blob_gas == body_blob_gas_used(block.body)
    IN  IF IsNone(block.header.blob_gas_used) THEN Err("BlobGasUsedMissing")
        ELSE IF total_blob_gas > MaxBlobGasPerBlock
             THEN Err("BlobGasUsedExceedsLimit")
        ELSE IF total_blob_gas # Unwrap(block.header.blob_gas_used)
             THEN ErrGotExpected("BlobGasUsedDiff",
                                 Unwrap(block.header.blob_gas_used), total_blob_gas)
        ELSE Ok

\* the withdrawals-root rule of lib.rs:117-126
WithdrawalsRootRule(cs, block) ==
    IF is_isthmus_active_at_timestamp(cs, block.header.timestamp)
    THEN LET r == ensure_withdrawals_storage_root_is_some(block.header)
         IN  IF IsOk(r) THEN Ok ELSE ErrOther(block.header.number, r)
    ELSE ensure_empty_withdrawals_root(block.header)

\* Faulty variant: the withdrawals-root rule is evaluated before the blob-gas rule.
validate_block_pre_execution_RootBeforeBlob(cs, block) ==
    LET header == block.header
        ommers_hash == calculate_ommers_root(block.body)
        tx == ensure_transaction_root_valid(block)
        sh == ensure_empty_shanghai_withdrawals(block.body)
        gas == validate_cancun_gas(block)
        wr == WithdrawalsRootRule(cs, block)
    IN  IF Some(header.ommers_hash) # ommers_hash
        THEN Ret(ErrGotExpected("BodyOmmersHashDiff",
                                unwrap_or(ommers_hash, EMPTY_OMMER_ROOT_HASH),
                                header.ommers_hash),
                 <<"ommers_hash">>)
        ELSE IF ~IsOk(tx)
        THEN Ret(tx, <<"ommers_hash", "transactions_root">>)
        ELSE IF ~is_shanghai_active_at_timestamp(cs, header.timestamp)
        THEN Ret(Ok, <<"ommers_hash", "transactions_root">>)
        ELSE IF ~IsOk(sh)
        THEN Ret(ErrOther(header.number, sh),
                 <<"ommers_hash", "transactions_root", "empty_withdrawals">>)
        ELSE IF ~is_cancun_active_at_timestamp(cs, header.timestamp)
        THEN Ret(Ok, <<"ommers_hash", "transactions_root", "empty_withdrawals">>)
        ELSE IF ~IsOk(wr)
        THEN Ret(wr, <<"ommers_hash", "transactions_root", "empty_withdrawals",
                       "withdrawals_root">>)
        ELSE Ret(gas, <<"ommers_hash", "transactions_root", "empty_withdrawals",
                        "withdrawals_root", "blob_gas">>)

validate_block_pre_execution(cs, block) ==
    LET header == block.header
        \* Check ommers hash
        ommers_hash == calculate_ommers_root(block.body)
        tx == ensure_transaction_root_valid(block)
        sh == ensure_empty_shanghai_withdrawals(block.body)
        gas == validate_cancun_gas(block)
        wr == WithdrawalsRootRule(cs, block)
    IN  IF Some(header.ommers_hash) # ommers_hash
        THEN Ret(ErrGotExpected("BodyOmmersHashDiff",
                                unwrap_or(ommers_hash, EMPTY_OMMER_ROOT_HASH),
                                header.ommers_hash),
                 <<"ommers_hash">>)
        \* Check transaction root
        ELSE IF ~IsOk(tx)
        THEN Ret(tx, <<"ommers_hash", "transactions_root">>)
        \* Check empty shanghai-withdrawals
        ELSE IF ~is_shanghai_active_at_timestamp(cs, header.timestamp)
        THEN Ret(Ok, <<"ommers_hash", "transactions_root">>)
        ELSE IF ~IsOk(sh)
        THEN Ret(ErrOther(header.number, sh),
                 <<"ommers_hash", "transactions_root", "empty_withdrawals">>)
        ELSE IF ~is_cancun_active_at_timestamp(cs, header.timestamp)
        THEN Ret(Ok, <<"ommers_hash", "transactions_root", "empty_withdrawals">>)
        ELSE IF ~IsOk(gas)
        THEN Ret(gas, <<"ommers_hash", "transactions_root", "empty_withdrawals",
                        "blob_gas">>)
        \* Check withdrawals root field in header
        ELSE Ret(wr, <<"ommers_hash", "transactions_root", "empty_withdrawals",
                       "blob_gas", "withdrawals_root">>)

(***************************************************************************)
(* Inputs of validate_block_pre_execution.                                 *)
(***************************************************************************)
Times == 0..MaxTime

Forks == {None, Some(ForkTime)}

OmmersLists == {<<>>, <<1>>}

TxLists == {<<1>>, <<1, 1>>}

WithdrawalLists == {<<>>, <<1>>}

PreExecChainSpecs ==
    [shanghai : Forks, cancun : Forks, isthmus : Forks,
     holocene : {None}, bedrock : {Some(0)}]

PreExecHeaders ==
    [number : {1}, timestamp : Times,
     ommers_hash : {Root("ommers", l) : l \in OmmersLists},
     transactions_root : {Root("transactions", l) : l \in TxLists},
     withdrawals_root : Option({EMPTY_ROOT_HASH, Root("trie", <<1>>)}),
     blob_gas_used : Option({1, 2})]

PreExecBodies ==
    [ommers : Option(OmmersLists), transactions : TxLists,
     withdrawals : Option(WithdrawalLists)]

PreExecCalls ==
    [op : {"validate_block_pre_execution"}, cs : PreExecChainSpecs,
     block : [header : PreExecHeaders, body : PreExecBodies]]

InitPreExec == call \in PreExecCalls /\ result = NoResult

ValidateBlockPreExecution ==
    /\ call.op = "validate_block_pre_execution"
    /\ result = NoResult
    /\ result' = validate_block_pre_execution(call.cs, call.block)
    /\ UNCHANGED call

NextPreExec == ValidateBlockPreExecution

SpecPreExec == InitPreExec /\ [][NextPreExec]_vars

PreExecDone == call.op = "validate_block_pre_execution" /\ result # NoResult

(***************************************************************************)
(* Properties of validate_block_pre_execution.                             *)
(***************************************************************************)
PreBlock == call.block

PreTs == call.block.header.timestamp

\* the ommers-hash rule of lib.rs:85-95, as a verdict of its own
OmmersHashPasses(block) ==
    Some(block.header.ommers_hash) = calculate_ommers_root(block.body)

FirstThreePass ==
    /\ OmmersHashPasses(PreBlock)
    /\ IsOk(ensure_transaction_root_valid(PreBlock))
    /\ IsOk(ensure_empty_shanghai_withdrawals(PreBlock.body))

WithdrawalsErrorTags ==
    {"BodyWithdrawalsMissing", "WithdrawalsRootUnexpected", "WithdrawalsRootMissing",
     "BodyWithdrawalsRootDiff", "StorageRootMissing",
     "WithdrawalsInvariantViolation"}

IsWithdrawalsError(v) ==
    \/ v.tag \in WithdrawalsErrorTags
    \/ v.tag = "Other" /\ v.cause \in WithdrawalsErrorTags

IsBlobGasError(v) ==
    v.tag \in {"BlobGasUsedMissing", "BlobGasUsedExceedsLimit", "BlobGasUsedDiff"}

\* C2: a block before the withdrawals hardfork (Shanghai/Canyon) whose body
\* carries a withdrawals list, and whose ommers hash and transactions root
\* are valid, is rejected with a withdrawals error; such a block is accepted
\* only when its body carries no withdrawals list.
C2_PreShanghaiWithdrawalsRejected ==
    (/\ PreExecDone
     /\ ~is_shanghai_active_at_timestamp(call.cs, PreTs)
     /\ OmmersHashPasses(PreBlock)
     /\ IsOk(ensure_transaction_root_valid(PreBlock)))
    => /\ IsSome(PreBlock.body.withdrawals) => IsWithdrawalsError(result.verdict)
       /\ IsOk(result.verdict) => IsNone(PreBlock.body.withdrawals)

\* C3: with Shanghai/Canyon active and the ommers-hash, transactions-root
\* and empty-withdrawals-list checks passing, the header withdrawals-root
\* rule is enforced whether or not Cancun is active: with Isthmus inactive
\* the block fails unless the header's withdrawals root is the empty root,
\* with Isthmus active it fails unless the header carries a withdrawals root.
C3_WithdrawalsRootEnforced ==
    (/\ PreExecDone
     /\ is_shanghai_active_at_timestamp(call.cs, PreTs)
     /\ FirstThreePass)
    => IF is_isthmus_active_at_timestamp(call.cs, PreTs)
       THEN IsNone(PreBlock.header.withdrawals_root) => ~IsOk(result.verdict)
       ELSE PreBlock.header.withdrawals_root # Some(EMPTY_ROOT_HASH)
                => ~IsOk(result.verdict)

\* C4 (as claimed): a block with Shanghai and Cancun active that passes the
\* first three checks and violates both the withdrawals-root rule and the
\* blob-gas rule is rejected with the withdrawals error, not a blob-gas one.
C4_WithdrawalsRootBeforeBlobGas ==
    (/\ PreExecDone
     /\ is_shanghai_active_at_timestamp(call.cs, PreTs)
     /\ is_cancun_active_at_timestamp(call.cs, PreTs)
     /\ FirstThreePass
     /\ ~IsOk(WithdrawalsRootRule(call.cs, PreBlock))
     /\ ~IsOk(validate_cancun_gas(PreBlock)))
    => /\ IsWithdrawalsError(result.verdict)
       /\ ~IsBlobGasError(result.verdict)

\* The checks that apply to a block, in the order the validator runs them:
\* ommers hash, transactions root, then (Shanghai active) the empty
\* withdrawals list, then (Cancun also active) blob gas and finally the
\* header withdrawals-root rule.
PreExecChecks(cs, block) ==
    LET ts == block.header.timestamp
        sh == ensure_empty_shanghai_withdrawals(block.body)
        c1 == [name |-> "ommers_hash",
               v |-> IF OmmersHashPasses(block) THEN Ok
                     ELSE [tag |-> "BodyOmmersHashDiff"]]
        c2 == [name |-> "transactions_root",
               v |-> [tag |-> ensure_transaction_root_valid(block).tag]]
        c3 == [name |-> "empty_withdrawals",
               v |-> [tag |-> IF IsOk(sh) THEN "Ok" ELSE "Other"]]
        c4 == [name |-> "blob_gas", v |-> [tag |-> validate_cancun_gas(block).tag]]
        c5 == [name |-> "withdrawals_root",
               v |-> [tag |-> WithdrawalsRootRule(cs, block).tag]]
    IN  <<c1, c2>> \o
        (IF is_shanghai_active_at_timestamp(cs, ts)
         THEN <<c3>> \o (IF is_cancun_active_at_timestamp(cs, ts)
                         THEN <<c4, c5>> ELSE <<>>)
         ELSE <<>>)

FirstFailing(checks) ==
    LET failing == {i \in 1..Len(checks) : ~IsOk(checks[i].v)}
    IN  IF failing = {} THEN 0
        ELSE CHOOSE i \in failing : \A j \in failing : i <= j

\* C4 (amended): the verdict is the error of the first failing check in the
\* order ommers hash, transactions root, empty withdrawals list (Shanghai
\* active), blob gas (Cancun also active), header withdrawals-root rule;
\* no check after the first failing one is evaluated; and a block failing
\* both the blob-gas and the withdrawals-root rule gets the blob-gas error.
C4_FirstFailingInCodeOrder ==
    PreExecDone =>
        LET checks == PreExecChecks(call.cs, PreBlock)
            k == FirstFailing(checks)
            n == IF k = 0 THEN Len(checks) ELSE k
        IN  /\ result.evaluated = [i \in 1..n |-> checks[i].name]
            /\ result.verdict.tag = (IF k = 0 THEN "Ok" ELSE checks[k].v.tag)
            /\ (/\ Len(checks) = 5
                /\ k = 4
                /\ ~IsOk(checks[5].v)) => IsBlobGasError(result.verdict)

C4_Witness ==
    /\ PreExecDone
    /\ is_shanghai_active_at_timestamp(call.cs, PreTs)
    /\ is_cancun_active_at_timestamp(call.cs, PreTs)
    /\ FirstThreePass
    /\ ~IsOk(WithdrawalsRootRule(call.cs, PreBlock))
    /\ ~IsOk(validate_cancun_gas(PreBlock))
    /\ IsBlobGasError(result.verdict)
    /\ result.evaluated[Len(result.evaluated)] = "blob_gas"

\* C5: for a body with zero ommers and a header declaring the canonical
\* empty-ommers constant, the ommers-hash step passes, also when recomputing
\* the body's ommers root yields no value; and a BodyOmmersHashDiff always
\* carries a 'got' that differs from its 'expected'.
C5_EmptyOmmersPass ==
    PreExecDone =>
        /\ (/\ unwrap_or(PreBlock.body.ommers, <<>>) = <<>>
            /\ PreBlock.header.ommers_hash = EMPTY_OMMER_ROOT_HASH)
           => result.verdict.tag # "BodyOmmersHashDiff"
        /\ result.verdict.tag = "BodyOmmersHashDiff"
           => result.verdict.got # result.verdict.expected

(***************************************************************************)
(* validate_header_against_parent and the rules it sequences.              *)
(*   header = [number, parent_hash, timestamp, base_fee_per_gas,           *)
(*             excess_blob_gas]                                            *)
(*   parent = [hash, number, timestamp, extra_data, base_fee_per_gas,      *)
(*             gas_used, gas_limit, excess_blob_gas, blob_gas_used]        *)
(* extra_data is a sequence of bytes.                                      *)
(***************************************************************************)
validate_against_parent_hash_number(header, parent) ==
    IF parent.hash # header.parent_hash
    THEN ErrGotExpected("ParentHashMismatch", header.parent_hash, parent.hash)
    ELSE IF parent.number + 1 # header.number
    THEN [tag |-> "ParentBlockNumberMismatch",
          parent_block_number |-> parent.number, block_number |-> header.number]
    ELSE Ok

validate_against_parent_timestamp(header, parent) ==
    IF header.timestamp <= parent.timestamp
    THEN [tag |-> "TimestampIsInPast",
          parent_timestamp |-> parent.timestamp, timestamp |-> header.timestamp]
    ELSE Ok

\* the chain's statically configured EIP-1559 constants
StaticDenominator == 8

StaticElasticity == 2

\* the fee-market formula of EIP-1559 with denominator d and elasticity e
compute_expected_base_fee(base_fee, gas_used, gas_limit, d, e) ==
    LET gas_target == gas_limit \div e
    IN  IF gas_used = gas_target THEN base_fee
        ELSE IF gas_used > gas_target
        THEN base_fee +
             Max(1, ((base_fee * (gas_used - gas_target)) \div gas_target) \div d)
        ELSE Max(0, base_fee -
                    ((base_fee * (gas_target - gas_used)) \div gas_target) \div d)

next_block_base_fee(parent, d, e) ==
    IF IsNone(parent.base_fee_per_gas) THEN None
    ELSE Some(compute_expected_base_fee(Unwrap(parent.base_fee_per_gas),
                                        parent.gas_used, parent.gas_limit, d, e))

\* a 4-byte big-endian unsigned integer
BigEndian4(b) == ((b[1] * 256 + b[2]) * 256 + b[3]) * 256 + b[4]

\* length of the parameter block: 1 version byte and two 4-byte integers
HoloceneExtraDataLen == 9

\* Decode the base-fee-parameter block of the parent's extra data (version
\* byte, denominator, elasticity) and compute the expected next base fee.
decode_holocene_base_fee(cs, parent, timestamp) ==
    LET extra_data == parent.extra_data
    IN  IF Len(extra_data) # HoloceneExtraDataLen THEN Err("NoEIP1559Params")
        ELSE IF extra_data[1] # 0 THEN Err("InvalidVersion")
        ELSE LET denominator == BigEndian4(SubSeq(extra_data, 2, 5))
                 elasticity == BigEndian4(SubSeq(extra_data, 6, 9))
             IN  [tag |-> "Ok",
                  value |-> unwrap_or(
                      next_block_base_fee(parent, denominator, elasticity), 0)]

validate_against_parent_eip1559_base_fee(header, parent, cs) ==
    LET expected == next_block_base_fee(parent, StaticDenominator, StaticElasticity)
    IN  IF IsNone(header.base_fee_per_gas) THEN Err("BaseFeeMissing")
        ELSE IF IsNone(expected) THEN Err("BaseFeeMissing")
        ELSE IF Unwrap(expected) # Unwrap(header.base_fee_per_gas)
        THEN ErrGotExpected("BaseFeeDiff", Unwrap(header.base_fee_per_gas),
                            Unwrap(expected))
        ELSE Ok

next_block_excess_blob_gas(blob_params, excess_blob_gas, blob_gas_used) ==
    Max(0, excess_blob_gas + blob_gas_used - blob_params.target)

validate_against_parent_4844(header, parent, blob_params) ==
    LET expected == next_block_excess_blob_gas(blob_params, parent.excess_blob_gas,
                                               parent.blob_gas_used)
    IN  IF IsNone(header.excess_blob_gas) THEN Err("ExcessBlobGasMissing")
        ELSE IF Unwrap(header.excess_blob_gas) # expected
        THEN ErrGotExpected("BlobGasDiff", Unwrap(header.excess_blob_gas), expected)
        ELSE Ok

\* Faulty variant: Holocene activation is looked up at the header's timestamp.
BaseFeeRule_AtHeaderTimestamp(cs, header, parent) ==
    IF is_holocene_active_at_timestamp(cs, header.timestamp)
    THEN IF IsNone(header.base_fee_per_gas)
         THEN Ret(Err("BaseFeeMissing"), <<"holocene_base_fee">>)
         ELSE LET header_base_fee == Unwrap(header.base_fee_per_gas)
                  decoded == decode_holocene_base_fee(cs, parent, header.timestamp)
              IN  IF ~IsOk(decoded)
                  THEN Ret(Err("BaseFeeMissing"),
                           <<"holocene_base_fee", "decode_extra_data">>)
                  ELSE IF decoded.value # header_base_fee
                  THEN Ret(ErrGotExpected("BaseFeeDiff", header_base_fee, decoded.value),
                           <<"holocene_base_fee", "decode_extra_data">>)
                  ELSE Ret(Ok, <<"holocene_base_fee", "decode_extra_data">>)
    ELSE Ret(validate_against_parent_eip1559_base_fee(header, parent, cs),
             <<"eip1559_base_fee">>)

\* Faulty variant: the decode error is propagated raw instead of BaseFeeMissing.
BaseFeeRule_RawDecodeError(cs, header, parent) ==
    IF is_holocene_active_at_timestamp(cs, parent.timestamp)
    THEN IF IsNone(header.base_fee_per_gas)
         THEN Ret(Err("BaseFeeMissing"), <<"holocene_base_fee">>)
         ELSE LET header_base_fee == Unwrap(header.base_fee_per_gas)
                  decoded == decode_holocene_base_fee(cs, parent, header.timestamp)
              IN  IF ~IsOk(decoded)
                  THEN Ret(decoded, <<"holocene_base_fee", "decode_extra_data">>)
                  ELSE IF decoded.value # header_base_fee
                  THEN Ret(ErrGotExpected("BaseFeeDiff", header_base_fee, decoded.value),
                           <<"holocene_base_fee", "decode_extra_data">>)
                  ELSE Ret(Ok, <<"holocene_base_fee", "decode_extra_data">>)
    ELSE Ret(validate_against_parent_eip1559_base_fee(header, parent, cs),
             <<"eip1559_base_fee">>)

\* Faulty variant: a base-fee mismatch is tolerated when the header's fee is higher.
BaseFeeRule_AcceptsHigherFee(cs, header, parent) ==
    IF is_holocene_active_at_timestamp(cs, parent.timestamp)
    THEN IF IsNone(header.base_fee_per_gas)
         THEN Ret(Err("BaseFeeMissing"), <<"holocene_base_fee">>)
         ELSE LET header_base_fee == Unwrap(header.base_fee_per_gas)
                  decoded == decode_holocene_base_fee(cs, parent, header.timestamp)
              IN  IF ~IsOk(decoded)
                  THEN Ret(Err("BaseFeeMissing"),
                           <<"holocene_base_fee", "decode_extra_data">>)
                  ELSE IF decoded.value > header_base_fee
                  THEN Ret(ErrGotExpected("BaseFeeDiff", header_base_fee, decoded.value),
                           <<"holocene_base_fee", "decode_extra_data">>)
                  ELSE Ret(Ok, <<"holocene_base_fee", "decode_extra_data">>)
    ELSE Ret(validate_against_parent_eip1559_base_fee(header, parent, cs),
             <<"eip1559_base_fee">>)

\* EIP1559 base fee validation (lib.rs:151-173): the verdict of the base-fee
\* rule and the steps it evaluated.
BaseFeeRule(cs, header, parent) ==
    IF is_holocene_active_at_timestamp(cs, parent.timestamp)
    THEN IF IsNone(header.base_fee_per_gas)
         THEN Ret(Err("BaseFeeMissing"), <<"holocene_base_fee">>)
         ELSE LET header_base_fee == Unwrap(header.base_fee_per_gas)
                  decoded == decode_holocene_base_fee(cs, parent, header.timestamp)
              IN  IF ~IsOk(decoded)
                  THEN Ret(Err("BaseFeeMissing"),
                           <<"holocene_base_fee", "decode_extra_data">>)
                  ELSE IF decoded.value # header_base_fee
                  THEN Ret(ErrGotExpected("BaseFeeDiff", header_base_fee, decoded.value),
                           <<"holocene_base_fee", "decode_extra_data">>)
                  ELSE Ret(Ok, <<"holocene_base_fee", "decode_extra_data">>)
    ELSE Ret(validate_against_parent_eip1559_base_fee(header, parent, cs),
             <<"eip1559_base_fee">>)

\* Faulty variant: the blob-gas rule runs before the base-fee rule.
validate_header_against_parent_BlobFirst(cs, header, parent) ==
    LET link == validate_against_parent_hash_number(header, parent)
        bedrock == is_bedrock_active_at_block(cs, header.number)
        time == validate_against_parent_timestamp(header, parent)
        ev1 == <<"hash_number">>
        ev2 == IF bedrock THEN Append(ev1, "timestamp") ELSE ev1
        fee == BaseFeeRule(cs, header, parent)
        blob_params == blob_params_at_timestamp(cs, header.timestamp)
        blob == validate_against_parent_4844(header, parent, Unwrap(blob_params))
        ev3 == IF IsSome(blob_params) THEN Append(ev2, "blob_gas") ELSE ev2
    IN  IF ~IsOk(link) THEN Ret(link, ev1)
        ELSE IF bedrock /\ ~IsOk(time) THEN Ret(time, ev2)
        ELSE IF IsSome(blob_params) /\ ~IsOk(blob) THEN Ret(blob, ev3)
        ELSE Ret(fee.verdict, ev3 \o fee.evaluated)

validate_header_against_parent(cs, header, parent) ==
    LET link == validate_against_parent_hash_number(header, parent)
        bedrock == is_bedrock_active_at_block(cs, header.number)
        time == validate_against_parent_timestamp(header, parent)
        ev1 == <<"hash_number">>
        ev2 == IF bedrock THEN Append(ev1, "timestamp") ELSE ev1
        fee == BaseFeeRule(cs, header, parent)
        ev3 == ev2 \o fee.evaluated
        \* ensure that the blob gas fields for this block
        blob_params == blob_params_at_timestamp(cs, header.timestamp)
        blob == validate_against_parent_4844(header, parent, Unwrap(blob_params))
    IN  IF ~IsOk(link) THEN Ret(link, ev1)
        ELSE IF bedrock /\ ~IsOk(time) THEN Ret(time, ev2)
        ELSE IF ~IsOk(fee.verdict) THEN Ret(fee.verdict, ev3)
        ELSE IF IsSome(blob_params)
        THEN Ret(blob, Append(ev3, "blob_gas"))
        ELSE Ret(Ok, ev3)

(***************************************************************************)
(* Inputs of validate_header_against_parent.                               *)
(***************************************************************************)
\* the 4-byte big-endian encoding of n
ToBigEndian4(n) ==
    <<(n \div 16777216) % 256, (n \div 65536) % 256, (n \div 256) % 256, n % 256>>

\* a version-0 parameter block carrying denominator d and elasticity e
HoloceneExtraData(d, e) == <<0>> \o ToBigEndian4(d) \o ToBigEndian4(e)

Denominators == {1, 2, 256}

Elasticities == {1, 2}

ExtraDatas ==
    {HoloceneExtraData(d, e) : d \in Denominators, e \in Elasticities}
    \cup {<<>>,                                 \* no parameter block
          <<1, 0, 0, 0, 2, 0, 0, 0, 2>>,        \* unknown version byte
          [i \in 1..33 |-> 0]}                  \* longer than any extra data

ParentChainSpecs ==
    [shanghai : {None}, cancun : Forks, isthmus : {None},
     holocene : Forks, bedrock : {None, Some(0)}]

ParentHeaders ==
    [hash : {"hP"}, number : {1}, timestamp : Times, extra_data : ExtraDatas,
     base_fee_per_gas : {Some(100)}, gas_used : {4, 8}, gas_limit : {8},
     excess_blob_gas : {0}, blob_gas_used : {0, 2}]

ChildHeaders ==
    [number : {2, 3}, parent_hash : {"hP", "hX"}, timestamp : Times,
     base_fee_per_gas : Option({100, 101, 112, 150}),
     excess_blob_gas : Option({0, 1})]

ParentCalls ==
    [op : {"validate_header_against_parent"}, cs : ParentChainSpecs,
     header : ChildHeaders, parent : ParentHeaders]

InitParent == call \in ParentCalls /\ result = NoResult

ValidateHeaderAgainstParent ==
    /\ call.op = "validate_header_against_parent"
    /\ result = NoResult
    /\ result' = validate_header_against_parent(call.cs, call.header, call.parent)
    /\ UNCHANGED call

NextParent == ValidateHeaderAgainstParent

SpecParent == InitParent /\ [][NextParent]_vars

ParentDone == call.op = "validate_header_against_parent" /\ result # NoResult

(***************************************************************************)
(* Properties of validate_header_against_parent.                           *)
(***************************************************************************)
HoloceneOnParent ==
    IsSome(call.cs.holocene) /\ call.parent.timestamp >= Unwrap(call.cs.holocene)

LinkagePasses ==
    call.header.parent_hash = call.parent.hash
    /\ call.header.number = call.parent.number + 1

BedrockOnHeader ==
    IsSome(call.cs.bedrock) /\ call.header.number >= Unwrap(call.cs.bedrock)

TimestampPasses == BedrockOnHeader => call.header.timestamp > call.parent.timestamp

BlobParamsDefined == IsSome(blob_params_at_timestamp(call.cs, call.header.timestamp))

BlobGasPasses ==
    BlobParamsDefined =>
        IsOk(validate_against_parent_4844(call.header, call.parent,
                Unwrap(blob_params_at_timestamp(call.cs, call.header.timestamp))))

\* the parent's extra data is a well-formed parameter block
ParentExtraDataDecodes ==
    \E d \in Denominators, e \in Elasticities :
        call.parent.extra_data = HoloceneExtraData(d, e)

\* the expected base fee, from the parameters the parent's extra data encodes
ExpectedHoloceneBaseFee ==
    LET p == CHOOSE p \in Denominators \X Elasticities :
                 call.parent.extra_data = HoloceneExtraData(p[1], p[2])
    IN  compute_expected_base_fee(Unwrap(call.parent.base_fee_per_gas),
                                  call.parent.gas_used, call.parent.gas_limit,
                                  p[1], p[2])

\* C1 (as claimed): with Holocene active on the parent and the parent's extra
\* data decoding to an expected base fee E, validation succeeds if and only
\* if the header's base fee equals E.
C1_SucceedsIffBaseFeeMatches ==
    (ParentDone /\ HoloceneOnParent /\ ParentExtraDataDecodes)
    => (IsOk(result.verdict)
        <=> call.header.base_fee_per_gas = Some(ExpectedHoloceneBaseFee))

\* C1 (amended): with Holocene active on the parent and the parent's extra
\* data decoding to an expected base fee E, validation succeeds if and only
\* if the header's base fee equals E and the linkage, timestamp (Bedrock) and
\* blob-gas rules pass.
C1_SucceedsIffBaseFeeAndOtherRules ==
    (ParentDone /\ HoloceneOnParent /\ ParentExtraDataDecodes)
    => (IsOk(result.verdict)
        <=> /\ call.header.base_fee_per_gas = Some(ExpectedHoloceneBaseFee)
            /\ LinkagePasses
            /\ TimestampPasses
            /\ BlobGasPasses)

C1_Witness ==
    /\ ParentDone /\ HoloceneOnParent /\ ParentExtraDataDecodes
    /\ call.parent.extra_data = HoloceneExtraData(256, 2)
    /\ call.parent.gas_used = 8
    /\ call.header.base_fee_per_gas = Some(101)
    /\ BlobParamsDefined
    /\ IsOk(result.verdict)

\* The rules that apply to a header, in the order the validator runs them,
\* each with its verdict and the steps it evaluates.
ParentChecks ==
    LET fee == BaseFeeRule(call.cs, call.header, call.parent)
        c1 == [v |-> validate_against_parent_hash_number(call.header, call.parent),
               steps |-> <<"hash_number">>]
        c2 == [v |-> validate_against_parent_timestamp(call.header, call.parent),
               steps |-> <<"timestamp">>]
        c3 == [v |-> fee.verdict, steps |-> fee.evaluated]
        c4 == [v |-> validate_against_parent_4844(call.header, call.parent,
                        Unwrap(blob_params_at_timestamp(call.cs, call.header.timestamp))),
               steps |-> <<"blob_gas">>]
    IN  <<c1>> \o (IF BedrockOnHeader THEN <<c2>> ELSE <<>>) \o <<c3>>
        \o (IF BlobParamsDefined THEN <<c4>> ELSE <<>>)

RECURSIVE StepsUpTo(_, _)
StepsUpTo(checks, n) ==
    IF n = 0 THEN <<>> ELSE StepsUpTo(checks, n - 1) \o checks[n].steps

\* C6: the rules run in the order linkage, timestamp (Bedrock active at the
\* header's number), base fee, blob gas (blob parameters defined at the
\* header's timestamp); the verdict is the error of the first failing rule,
\* no later rule is evaluated, and the verdict is success exactly when every
\* applicable rule passes.
C6_FirstFailingRule ==
    ParentDone =>
        LET k == FirstFailing(ParentChecks)
            n == IF k = 0 THEN Len(ParentChecks) ELSE k
        IN  /\ result.evaluated = StepsUpTo(ParentChecks, n)
            /\ IF k = 0 THEN IsOk(result.verdict)
               ELSE /\ result.verdict.tag = ParentChecks[k].v.tag
                    /\ result.verdict = ParentChecks[k].v
            /\ IsOk(result.verdict)
               <=> \A i \in 1..Len(ParentChecks) : IsOk(ParentChecks[i].v)

C6_Witness ==
    /\ ParentDone
    /\ LinkagePasses /\ BedrockOnHeader /\ TimestampPasses
    /\ BlobParamsDefined /\ ~BlobGasPasses
    /\ result.verdict.tag = "BaseFeeDiff"
    /\ result.evaluated[Len(result.evaluated)] # "blob_gas"

DecodeErrorTags == {"NoEIP1559Params", "InvalidVersion"}

\* C8: with Holocene active on the parent and the linkage and timestamp rules
\* passing, a missing header base fee or any failure to decode the parent's
\* extra data gives exactly BaseFeeMissing, never the decode error;
\* BaseFeeDiff is returned only when both values exist and differ, with
\* got = the header's base fee and expected = the computed value.
C8_DecodeFailureIsBaseFeeMissing ==
    (ParentDone /\ HoloceneOnParent /\ LinkagePasses /\ TimestampPasses)
    => /\ (IsNone(call.header.base_fee_per_gas) \/ ~ParentExtraDataDecodes)
          => result.verdict = Err("BaseFeeMissing")
       /\ result.verdict.tag \notin DecodeErrorTags
       /\ result.verdict.tag = "BaseFeeDiff"
          => /\ IsSome(call.header.base_fee_per_gas)
             /\ ParentExtraDataDecodes
             /\ ExpectedHoloceneBaseFee # Unwrap(call.header.base_fee_per_gas)
             /\ result.verdict.got = Unwrap(call.header.base_fee_per_gas)
             /\ result.verdict.expected = ExpectedHoloceneBaseFee
       /\ (/\ IsSome(call.header.base_fee_per_gas)
           /\ ParentExtraDataDecodes
           /\ ExpectedHoloceneBaseFee # Unwrap(call.header.base_fee_per_gas))
          => result.verdict.tag = "BaseFeeDiff"

C8_Witness ==
    /\ ParentDone /\ HoloceneOnParent /\ LinkagePasses /\ TimestampPasses
    /\ IsSome(call.header.base_fee_per_gas)
    /\ call.parent.extra_data = <<1, 0, 0, 0, 2, 0, 0, 0, 2>>
    /\ result.verdict = Err("BaseFeeMissing")

AppliedBaseFeeRules ==
    {result.evaluated[i] : i \in 1..Len(result.evaluated)}
        \cap {"holocene_base_fee", "eip1559_base_fee"}

ExtraDataDecoded ==
    \E i \in 1..Len(result.evaluated) : result.evaluated[i] = "decode_extra_data"

MAXIMUM_EXTRA_DATA_SIZE == 32

validate_header_extra_data(header) ==
    LET extra_data_len == Len(header.extra_data)
    IN  IF extra_data_len > MAXIMUM_EXTRA_DATA_SIZE
        THEN [tag |-> "ExtraDataExceedsMax", len |-> extra_data_len]
        ELSE Ok

\* B64::ZERO
B64_ZERO == 0

\* Faulty variant: the ommers hash is checked before the nonce.
validate_header_with_total_difficulty_OmmersFirst(cs, header, total_difficulty, debug_assertions) ==
    IF debug_assertions /\ ~is_bedrock_active_at_block(cs, header.number)
    THEN Ret(Err("Panic"), <<"debug_assert">>)
    ELSE IF header.ommers_hash # EMPTY_OMMER_ROOT_HASH
    THEN Ret(Err("TheMergeOmmerRootIsNotEmpty"), <<"ommers_hash">>)
    ELSE IF header.nonce # Some(B64_ZERO)
    THEN Ret(Err("TheMergeNonceIsNotZero"), <<"ommers_hash", "nonce">>)
    ELSE Ret(validate_header_extra_data(header),
             <<"ommers_hash", "nonce", "extra_data">>)

validate_header_with_total_difficulty(cs, header, total_difficulty, debug_assertions) ==
    IF debug_assertions /\ ~is_bedrock_active_at_block(cs, header.number)
    THEN Ret(Err("Panic"), <<"debug_assert">>)
    ELSE IF header.nonce # Some(B64_ZERO)
    THEN Ret(Err("TheMergeNonceIsNotZero"), <<"nonce">>)
    ELSE IF header.ommers_hash # EMPTY_OMMER_ROOT_HASH
    THEN Ret(Err("TheMergeOmmerRootIsNotEmpty"), <<"nonce", "ommers_hash">>)
    \* validate header extra data for all networks post merge
    ELSE Ret(validate_header_extra_data(header),
             <<"nonce", "ommers_hash", "extra_data">>)

TotalDifficulties == {0, 1}

TdChainSpecs ==
    [shanghai : {None}, cancun : {None}, isthmus : {None}, holocene : {None},
     bedrock : Forks]

TdHeaders ==
    [number : 0..MaxTime, nonce : Option({0, 1}),
     ommers_hash : {Root("ommers", l) : l \in OmmersLists},
     extra_data : ExtraDatas]

TdCalls ==
    [op : {"validate_header_with_total_difficulty"}, cs : TdChainSpecs,
     header : TdHeaders, total_difficulty : TotalDifficulties,
     debug_assertions : BOOLEAN]

InitTd == call \in TdCalls /\ result = NoResult

ValidateHeaderWithTotalDifficulty ==
    /\ call.op = "validate_header_with_total_difficulty"
    /\ result = NoResult
    /\ result' = validate_header_with_total_difficulty(
                     call.cs, call.header, call.total_difficulty,
                     call.debug_assertions)
    /\ UNCHANGED call

NextTd == ValidateHeaderWithTotalDifficulty

SpecTd == InitTd /\ [][NextTd]_vars

TdDone == call.op = "validate_header_with_total_difficulty" /\ result # NoResult

NonceIsZero == call.header.nonce = Some(0)

OmmersHashIsEmpty == call.header.ommers_hash = EMPTY_OMMER_ROOT_HASH

ExtraDataPasses == IsOk(validate_header_extra_data(call.header))

\* C7: for a header at a block number where Bedrock is active, validation
\* succeeds if and only if the nonce is present and all-zero, the ommers hash
\* is the canonical empty-list constant and the extra data passes the shared
\* validator; otherwise the verdict is the first failure in the order
\* TheMergeNonceIsNotZero, TheMergeOmmerRootIsNotEmpty, extra-data error;
\* and the total difficulty never influences the verdict.
C7_PostMergeHeaderRules ==
    (/\ TdDone
     /\ IsSome(call.cs.bedrock)
     /\ call.header.number >= Unwrap(call.cs.bedrock))
    => /\ IsOk(result.verdict)
          <=> (NonceIsZero /\ OmmersHashIsEmpty /\ ExtraDataPasses)
       /\ ~NonceIsZero => result.verdict = Err("TheMergeNonceIsNotZero")
       /\ (NonceIsZero /\ ~OmmersHashIsEmpty)
          => result.verdict = Err("TheMergeOmmerRootIsNotEmpty")
       /\ (NonceIsZero /\ OmmersHashIsEmpty /\ ~ExtraDataPasses)
          => result.verdict = validate_header_extra_data(call.header)
       /\ \A td \in TotalDifficulties :
             validate_header_with_total_difficulty(
                 call.cs, call.header, td, call.debug_assertions) = result

C7_Witness ==
    /\ TdDone
    /\ IsSome(call.cs.bedrock)
    /\ call.header.number >= Unwrap(call.cs.bedrock)
    /\ call.header.nonce = Some(1)
    /\ ~OmmersHashIsEmpty
    /\ call.total_difficulty = 1
    /\ result.verdict = Err("TheMergeNonceIsNotZero")

(***************************************************************************)
(* EIP-7685 request lists: Encodable and Decodable for Requests.           *)
(*   request = [ty, fields]: the request type byte and the fields of the   *)
(*   request, each a byte below 0x80.  Buffers are sequences of bytes.     *)
(***************************************************************************)
RECURSIVE Concat(_)
Concat(ss) == IF ss = <<>> THEN <<>> ELSE Head(ss) \o Concat(Tail(ss))

\* alloy_rlp::Header::encode
HeaderEncode(list, payload_length) ==
    IF payload_length < 56
    THEN <<(IF list THEN 192 ELSE 128) + payload_length>>
    ELSE <<(IF list THEN 247 ELSE 183) + 1, payload_length>>

\* alloy_rlp: Encodable for Bytes, a byte string
BytesEncode(bytes) ==
    IF Len(bytes) = 1 /\ bytes[1] < 128 THEN bytes
    ELSE HeaderEncode(FALSE, Len(bytes)) \o bytes

\* Encodable7685::encoded_7685: the type byte, then the RLP list of fields
encoded_7685(req) == <<req.ty>> \o HeaderEncode(TRUE, Len(req.fields)) \o req.fields

\* length of the header alloy_rlp writes for a payload
HeaderLength(payload_length) == IF payload_length < 56 THEN 1 ELSE 2

\* impl Encodable for Requests: the bytes written to out, and the payload
\* length the list header declares
RequestsEncode(requests) ==
    LET encoded == [i \in 1..Len(requests) |-> encoded_7685(requests[i])]
        payload_length == SumSeq([i \in 1..Len(requests) |-> Len(encoded[i])])
    IN  [payload_length |-> payload_length,
         out |-> HeaderEncode(TRUE, payload_length)
                 \o Concat([i \in 1..Len(requests) |-> BytesEncode(encoded[i])])]

\* alloy_rlp::Header::decode
HeaderDecode(buf) ==
    IF buf = <<>> THEN Err("InputTooShort")
    ELSE LET b == buf[1]
             rest == Tail(buf)
             short(list, n) ==
                 IF ~list /\ n = 1 /\ rest # <<>> /\ rest[1] < 128
                 THEN Err("NonCanonicalSingleByte")
                 ELSE IF Len(rest) < n THEN Err("InputTooShort")
                 ELSE [tag |-> "Ok", list |-> list, payload_length |-> n,
                       rest |-> rest]
             long(list) ==
                 IF rest = <<>> THEN Err("InputTooShort")
                 ELSE IF rest[1] < 56 THEN Err("NonCanonicalSize")
                 ELSE IF Len(rest) - 1 < rest[1] THEN Err("InputTooShort")
                 ELSE [tag |-> "Ok", list |-> list, payload_length |-> rest[1],
                       rest |-> Tail(rest)]
         IN  IF b < 128
             THEN [tag |-> "Ok", list |-> FALSE, payload_length |-> 1, rest |-> buf]
             ELSE IF b < 184 THEN short(FALSE, b - 128)
             ELSE IF b = 184 THEN long(FALSE)
             ELSE IF b < 192 THEN Err("Overflow")
             ELSE IF b < 248 THEN short(TRUE, b - 192)
             ELSE IF b = 248 THEN long(TRUE)
             ELSE Err("Overflow")

\* alloy_rlp::Header::decode_bytes: the payload of the next item and the
\* buffer after it
HeaderDecodeBytes(buf, is_list) ==
    LET h == HeaderDecode(buf)
    IN  IF ~IsOk(h) THEN h
        ELSE IF h.list # is_list
        THEN Err(IF is_list THEN "UnexpectedString" ELSE "UnexpectedList")
        ELSE [tag |-> "Ok", value |-> SubSeq(h.rest, 1, h.payload_length),
              rest |-> SubSeq(h.rest, h.payload_length + 1, Len(h.rest))]

\* alloy_rlp: Decodable for Vec<Bytes>, the items of the payload view
RECURSIVE DecodeItems(_)
DecodeItems(payload_view) ==
    IF payload_view = <<>> THEN [tag |-> "Ok", value |-> <<>>]
    ELSE LET item == HeaderDecodeBytes(payload_view, FALSE)
         IN  IF ~IsOk(item) THEN item
             ELSE LET more == DecodeItems(item.rest)
                  IN  IF ~IsOk(more) THEN more
                      ELSE [tag |-> "Ok", value |-> <<item.value>> \o more.value]

VecBytesDecode(buf) ==
    LET bytes == HeaderDecodeBytes(buf, TRUE)
    IN  IF ~IsOk(bytes) THEN bytes ELSE DecodeItems(bytes.value)

RequestTypes == {0, 1}

\* Decodable7685::decode_7685
decode_7685(bytes) ==
    IF bytes = <<>> THEN Err("MissingType")
    ELSE IF bytes[1] \notin RequestTypes THEN Err("UnexpectedType")
    ELSE LET fields == HeaderDecodeBytes(Tail(bytes), TRUE)
         IN  IF ~IsOk(fields) THEN fields
             ELSE [tag |-> "Ok", value |-> [ty |-> bytes[1], fields |-> fields.value]]

\* collect::<Result<Vec<_>, _>>(): the first error, or every value
RECURSIVE Collect(_)
Collect(rs) ==
    IF rs = <<>> THEN [tag |-> "Ok", value |-> <<>>]
    ELSE IF ~IsOk(Head(rs)) THEN [tag |-> Head(rs).tag]
    ELSE LET more == Collect(Tail(rs))
         IN  IF ~IsOk(more) THEN more
             ELSE [tag |-> "Ok", value |-> <<Head(rs).value>> \o more.value]

\* impl Decodable for Requests
RequestsDecode(buf) ==
    LET items == VecBytesDecode(buf)
    IN  IF ~IsOk(items) THEN [tag |-> items.tag]
        ELSE Collect([i \in 1..Len(items.value) |-> decode_7685(items.value[i])])

RequestSet == [ty : RequestTypes, fields : {<<5>>, <<5, 6>>}]

RECURSIVE SeqsUpTo(_, _)
SeqsUpTo(S, n) ==
    IF n = 0 THEN {<<>>}
    ELSE LET shorter == SeqsUpTo(S, n - 1)
         IN  shorter \cup {Append(s, x) : s \in shorter, x \in S}

RequestsCalls == [op : {"requests_round_trip"}, requests : SeqsUpTo(RequestSet, MaxRequests)]

InitRequests == call \in RequestsCalls /\ result = NoResult

\* Requests(r).encode(out)
Encode ==
    /\ call.op = "requests_round_trip"
    /\ result = NoResult
    /\ LET e == RequestsEncode(call.requests)
       IN  result' = [verdict |-> [tag |-> "Encoded"], evaluated |-> <<>>,
                      out |-> e.out, payload_length |-> e.payload_length]
    /\ UNCHANGED call

\* Requests::decode(&mut out)
Decode ==
    /\ call.op = "requests_round_trip"
    /\ result.verdict.tag = "Encoded"
    /\ result' = [result EXCEPT !.verdict = RequestsDecode(result.out)]
    /\ UNCHANGED call

NextRequests == Encode \/ Decode

SpecRequests == InitRequests /\ [][NextRequests]_vars

RequestsDecoded ==
    call.op = "requests_round_trip" /\ result.verdict.tag \notin {"NoResult", "Encoded"}

\* C10: decoding the bytes produced by Requests(r).encode returns Requests(r),
\* and the payload length written in the RLP list header equals the number
\* of bytes written after the header.
C10_RequestsRoundTrip ==
    RequestsDecoded
    => /\ IsOk(result.verdict)
       /\ result.verdict.value = call.requests
       /\ result.payload_length
            = Len(result.out) - HeaderLength(result.payload_length)

(***************************************************************************)
(* MinedSidecarStream::poll_next.                                          *)
(*   call.this = [queued_actions, pending_requests, events]: the stream    *)
(*     object.  queued_actions is a sequence of sidecars; pending_requests *)
(*     a set of futures [id, ready, output], output being Some(sidecar)    *)
(*     for Ok and None for Err; events = [available, closed] counts the    *)
(*     notifications ready to be taken and tells whether the stream ended. *)
(*   result = [verdict, pc, entry_queue, events_pending, evaluated]: the   *)
(*     position inside the running call, the value it returned, the queue  *)
(*     as it was when the call started and whether the event stream has    *)
(*     reported Pending during the call.                                   *)
(* Every poll of an inner stream is one step: other tasks may complete a   *)
(* request or send a notification between two polls.                       *)
(***************************************************************************)
Sidecars == {1, 2}

RequestFutures ==
    {[id |-> 1, output |-> Some(3)], [id |-> 2, output |-> None]}

PollReady(item) == [tag |-> "Ready", item |-> item]

PollPending == [tag |-> "Pending"]

PollNextQueues == SeqsUpTo(Sidecars, MaxQueue)

PollNextPending ==
    {[f \in fs |-> r[f]] : fs \in SUBSET RequestFutures, r \in [RequestFutures -> BOOLEAN]}

InitPollNext ==
    /\ call \in [op : {"poll_next"},
                 this : [queued_actions : PollNextQueues,
                         pending_requests : PollNextPending,
                         events : [available : {0}, closed : {FALSE},
                                   sent : {0}]]]
    /\ result = [verdict |-> [tag |-> "NoResult"], evaluated |-> <<>>,
                 pc |-> "queued_actions", entry_queue |-> <<>>,
                 events_pending |-> FALSE]

Return(v) == [result EXCEPT !.verdict = v, !.pc = "done"]

\* return any buffered result (main.rs:51-54)
PopFront ==
    /\ call.op = "poll_next"
    /\ result.pc = "queued_actions"
    /\ LET queue == call.this.queued_actions
       IN  IF queue # <<>>
           THEN /\ call' = [call EXCEPT !.this.queued_actions = Tail(queue)]
                /\ result' = [Return(PollReady(Some(Head(queue))))
                                 EXCEPT !.entry_queue = queue]
           ELSE /\ result' = [result EXCEPT !.pc = "pending_requests",
                                            !.entry_queue = queue]
                /\ UNCHANGED call

\* one iteration of `while let Poll::Ready(Some(result)) =
\* this.pending_requests.poll_next_unpin(cx)` (main.rs:56-64)
PollPendingRequests ==
    /\ call.op = "poll_next"
    /\ result.pc = "pending_requests"
    /\ LET pending == call.this.pending_requests
           ready == {f \in DOMAIN pending : pending[f]}
       IN  IF ready = {}
           \* Poll::Ready(None) or Poll::Pending: the loop ends
           THEN /\ result' = [result EXCEPT !.pc = "events"]
                /\ UNCHANGED call
           ELSE \E f \in ready :
                  /\ call' = [call EXCEPT !.this.pending_requests =
                                 [g \in DOMAIN pending \ {f} |-> pending[g]]]
                  /\ IF IsSome(f.output)
                     THEN result' = Return(PollReady(f.output))
                     \* Err(e): logged, the loop goes on
                     ELSE UNCHANGED result

\* one iteration of `loop { match this.events.poll_next_unpin(cx) .. }`
\* (main.rs:67-78)
PollEvents ==
    /\ call.op = "poll_next"
    /\ result.pc = "events"
    /\ LET events == call.this.events
       IN  IF events.available > 0
           \* Poll::Ready(Some(notification)): dropped, the loop goes on
           THEN /\ call' = [call EXCEPT !.this.events.available = @ - 1]
                /\ result' = [result EXCEPT !.events_pending = FALSE]
           ELSE IF events.closed
           \* Poll::Ready(None) => return Poll::Ready(None)
           THEN /\ result' = Return(PollReady(None))
                /\ UNCHANGED call
           \* Poll::Pending => continue
           ELSE /\ result' = [result EXCEPT !.events_pending = TRUE]
                /\ UNCHANGED call

\* the executor polls the stream again after a call returned an item
PollAgain ==
    /\ call.op = "poll_next"
    /\ result.pc = "done"
    /\ result.verdict # PollReady(None)
    /\ result' = [result EXCEPT !.verdict = [tag |-> "NoResult"],
                                !.pc = "queued_actions",
                                !.events_pending = FALSE]
    /\ UNCHANGED call

\* another task sends a canonical-state notification
Notify ==
    /\ call.op = "poll_next"
    /\ ~call.this.events.closed
    /\ call.this.events.sent < MaxEvents
    /\ call' = [call EXCEPT !.this.events.available = @ + 1,
                            !.this.events.sent = @ + 1]
    /\ UNCHANGED result

\* the sender of the notifications is dropped
CloseEvents ==
    /\ call.op = "poll_next"
    /\ ~call.this.events.closed
    /\ call' = [call EXCEPT !.this.events.closed = TRUE]
    /\ UNCHANGED result

\* a consensus-layer request completes
RequestCompletes ==
    /\ call.op = "poll_next"
    /\ \E f \in DOMAIN call.this.pending_requests :
         /\ ~call.this.pending_requests[f]
         /\ call' = [call EXCEPT !.this.pending_requests[f] = TRUE]
    /\ UNCHANGED result

NextPollNext ==
    \/ PopFront
    \/ PollPendingRequests
    \/ PollEvents
    \/ PollAgain
    \/ Notify
    \/ CloseEvents
    \/ RequestCompletes

SpecPollNext == InitPollNext /\ [][NextPollNext]_vars

\* C11: every call to poll_next returns: a buffered item of queued_actions
\* is yielded first, in FIFO order, and once the event stream has reported
\* Pending (no item buffered, no pending request ready) the call has
\* returned Poll::Pending instead of staying in the call to poll the event
\* stream again.
C11_PollNextReturnsPending ==
    call.op = "poll_next" =>
        /\ (result.pc = "done" /\ result.entry_queue # <<>>)
           => /\ result.verdict = PollReady(Some(Head(result.entry_queue)))
              /\ call.this.queued_actions = Tail(result.entry_queue)
        /\ result.events_pending
           => (result.pc = "done" /\ result.verdict = PollPending)

====
